---- MODULE Spec2Model ----
\* StorageKafka: the consumer pool (buffers + semaphore + mutex), startup and
\* shutdown, the streaming task (threadFunc / streamToViews) and the read path,
\* as far as they use the pool and the commit protocol.
EXTENDS Integers, Sequences, FiniteSets, TLC

\* ---------------------------------------------------------------- bounds
MaxConsumers == 2       \* largest configured kafka_num_consumers
MaxRecords == 3         \* records in each Reader's partition
MaxBlockSize == 2       \* getMaxBlockSize(): records per Reader per round
MaxFailures == 1        \* sink errors + failed commits in one run
MaxQueries == 1         \* SELECT queries in one run
MaxRoundTicks == 1      \* clock ticks that may pass inside one round

\* ------------------------------------------------------ program constants
RESCHEDULE_MS == 500
MAX_THREAD_WORK_DURATION_MS == 60000

\* The clock advances in steps of the work-duration budget.
Tick == MAX_THREAD_WORK_DURATION_MS

NoReader == 0           \* nullptr
NoThread == "none"
Garbage == 99           \* a value buffers.back() may yield on an empty vector

Users == {"task", "select"}
Threads == {"main", "task", "select"}
ReaderIds == (1..MaxConsumers) \cup {Garbage}

\* ---------------------------------------------------------------- catalog
Tables == {"kafka", "v1", "v2"}

NoDeps == [t \in Tables |-> {}]

CatNone == [deps |-> NoDeps, attached |-> {"kafka"}, mv |-> {}, target |-> {}]

CatReady ==
    [deps |-> [NoDeps EXCEPT !["kafka"] = {"v1"}],
     attached |-> {"kafka", "v1"}, mv |-> {"v1"}, target |-> {"v1"}]

CatMissing ==
    [deps |-> [NoDeps EXCEPT !["kafka"] = {"v1"}],
     attached |-> {"kafka"}, mv |-> {}, target |-> {}]

CatNoTarget ==
    [deps |-> [NoDeps EXCEPT !["kafka"] = {"v1"}],
     attached |-> {"kafka", "v1"}, mv |-> {"v1"}, target |-> {}]

CatChainMissing ==
    [deps |-> [NoDeps EXCEPT !["kafka"] = {"v1"}, !["v1"] = {"v2"}],
     attached |-> {"kafka", "v1"}, mv |-> {"v1"}, target |-> {"v1"}]

Catalogs == {CatNone, CatReady, CatMissing, CatNoTarget, CatChainMissing}

\* checkDependencies(table_id): every dependent, at every depth, is attached
\* and, when it is a materialized view, has a target table.
RECURSIVE checkDependencies(_, _)
checkDependencies(cat, table_id) ==
    LET dependencies == cat.deps[table_id] IN
    IF dependencies = {} THEN TRUE
    ELSE \A db_tab \in dependencies :
            /\ db_tab \in cat.attached
            /\ ~(db_tab \in cat.mv /\ db_tab \notin cat.target)
            /\ checkDependencies(cat, db_tab)

\* ------------------------------------------------------------------ state
VARIABLES
    num_consumers,          \* kafka_num_consumers
    intermediate_commit,    \* kafka_commit_every_batch
    num_created_consumers,
    buffers,                \* the pool's vector of Readers
    semaphore,              \* Poco::Semaphore count, maximum num_consumers
    mutex,                  \* holder of StorageKafka::mutex
    sem_error,              \* semaphore.set() threw: count would exceed maximum
    pop_ub,                 \* buffers.back() was evaluated on an empty vector
    stream_cancelled,
    task_active,            \* the task is activated (not deactivated)
    task_scheduled,         \* the task is queued to run
    scheduled_delay,        \* the delay, in ms, it was queued with
    pc,                     \* position of each thread
    mi,                     \* loop index of startup / shutdown
    closed,                 \* Readers popped by shutdown
    streams,                \* per user: its KafkaBlockInputStreams
    j,                      \* streamToViews: index of the commit loop
    some_stream_is_stalled,
    thrown,                 \* an exception was raised in this invocation
    deps_ready,             \* result of the last checkDependencies call
    elapsed,                \* steady_clock::now() - start_time
    round_ticks,            \* ticks spent in the current round
    queries,                \* SELECT queries started
    pos,                    \* per Reader: records consumed
    committed,              \* per Reader: committed offset
    sunk,                   \* per Reader: highest offset handed to the sink
    failures,               \* sink errors and failed commits so far
    avail,                  \* records in each Reader's partition
    catalog,                \* DatabaseCatalog as threadFunc last read it
    dep_catalog,            \* DatabaseCatalog a checkDependencies call runs on
    dep_stack,              \* its call stack, one frame per nested call
    dep_result,             \* "none", "running", "true", "false", "overflow"
    rounds_after_cancel,    \* rounds started while stream_cancelled was set
    resched_after_cancel    \* scheduleAfter calls made while it was set

vars == <<num_consumers, intermediate_commit, num_created_consumers, buffers,
          semaphore, mutex, sem_error, pop_ub, stream_cancelled, task_active,
          task_scheduled, scheduled_delay, pc, mi, closed, streams, j,
          some_stream_is_stalled,
          thrown, deps_ready, elapsed, round_ticks, queries, pos, committed,
          sunk, failures, avail, catalog, dep_catalog, dep_stack, dep_result,
          rounds_after_cancel, resched_after_cancel>>

poolVars == <<buffers, semaphore, mutex, sem_error, pop_ub>>
cfgVars == <<num_consumers, intermediate_commit, avail>>
taskVars == <<task_active, task_scheduled, scheduled_delay>>
mainVars == <<mi, closed, num_created_consumers>>
roundVars == <<j, some_stream_is_stalled, thrown, deps_ready>>
clockVars == <<elapsed, round_ticks>>
dataVars == <<pos, committed, sunk, failures>>
ghostVars == <<rounds_after_cancel, resched_after_cancel>>
depVars == <<dep_catalog, dep_stack, dep_result>>

\* A freshly constructed KafkaBlockInputStream.
NewStream ==
    [buf |-> NoReader, st |-> "new", block |-> <<>>, stalled |-> FALSE,
     dirty |-> FALSE, commit_called |-> FALSE]

InitStorage ==
    /\ num_created_consumers = 0
    /\ buffers = <<>>
    /\ semaphore = 0
    /\ mutex = NoThread
    /\ sem_error = FALSE
    /\ pop_ub = FALSE
    /\ stream_cancelled = FALSE
    /\ task_active = FALSE
    /\ task_scheduled = FALSE
    /\ scheduled_delay = 0
    /\ pc = [t \in Threads |-> IF t = "main" THEN "startup" ELSE "idle"]
    /\ mi = 0
    /\ closed = 0
    /\ streams = [u \in Users |-> <<>>]
    /\ j = 0
    /\ some_stream_is_stalled = FALSE
    /\ thrown = FALSE
    /\ deps_ready = FALSE
    /\ elapsed = 0
    /\ round_ticks = 0
    /\ queries = 0
    /\ pos = [r \in ReaderIds |-> 0]
    /\ committed = [r \in ReaderIds |-> 0]
    /\ sunk = [r \in ReaderIds |-> 0]
    /\ failures = 0
    /\ dep_stack = <<>>
    /\ dep_result = "none"
    /\ rounds_after_cancel = 0
    /\ resched_after_cancel = 0

\* A table with any configuration, its topic holding records.
InitRound ==
    /\ InitStorage
    /\ num_consumers \in 1..MaxConsumers
    /\ intermediate_commit \in BOOLEAN
    /\ avail = MaxRecords
    /\ catalog = CatNone
    /\ dep_catalog = CatNone

\* A table with an empty topic.
InitPool ==
    /\ InitStorage
    /\ num_consumers \in 1..MaxConsumers
    /\ intermediate_commit = FALSE
    /\ avail = 0
    /\ catalog = CatNone
    /\ dep_catalog = CatNone

Goto(t, where) == pc' = [pc EXCEPT ![t] = where]

\* ------------------------------------------------------------- the pool
\* A wait that passes without taking the permit.
SemaphoreWaitKeepsPermit(n) == n

\* Poco::Semaphore::wait / tryWait: passes when the count is positive and
\* takes one permit.
SemaphoreWait(n) == n - 1

\* A push that locks the mutex and appends nothing.
PushAppendMissing(t, buffer) ==
    /\ mutex = NoThread
    /\ mutex' = t
    /\ UNCHANGED <<buffers, semaphore, sem_error, pop_ub>>

\* pushReadBuffer, first half: lock the mutex, buffers.push_back(buffer).
PushAppend(t, buffer) ==
    /\ mutex = NoThread
    /\ mutex' = t
    /\ buffers' = Append(buffers, buffer)
    /\ UNCHANGED <<semaphore, sem_error, pop_ub>>

\* A semaphore constructed one permit short.
SemaphoreMaxShort == num_consumers - 1

\* The constructor: semaphore(0, num_consumers).
SemaphoreMax == num_consumers

\* A push that unlocks without signalling the semaphore.
PushSignalLost(t) ==
    /\ mutex = t
    /\ mutex' = NoThread
    /\ UNCHANGED <<buffers, semaphore, sem_error, pop_ub>>

\* A push that signals the semaphore and leaves the mutex locked.
PushSignalKeepsMutex(t) ==
    /\ mutex = t
    /\ IF semaphore < SemaphoreMax
          THEN semaphore' = semaphore + 1 /\ UNCHANGED sem_error
          ELSE sem_error' = TRUE /\ UNCHANGED semaphore
    /\ UNCHANGED <<buffers, mutex, pop_ub>>

\* pushReadBuffer, second half: semaphore.set(), unlock. set() throws when the
\* count would exceed the maximum the semaphore was constructed with.
PushSignal(t) ==
    /\ mutex = t
    /\ mutex' = NoThread
    /\ IF semaphore < SemaphoreMax
          THEN semaphore' = semaphore + 1 /\ UNCHANGED sem_error
          ELSE sem_error' = TRUE /\ UNCHANGED semaphore
    /\ UNCHANGED <<buffers, pop_ub>>

\* A wait that returns at once, whatever the count.
PopWaitUnguarded ==
    /\ semaphore' = SemaphoreWait(semaphore)
    /\ UNCHANGED <<buffers, mutex, sem_error, pop_ub>>

\* popReadBuffer, the wait on the semaphore (no mutex held).
PopWait ==
    /\ semaphore > 0
    /\ semaphore' = SemaphoreWait(semaphore)
    /\ UNCHANGED <<buffers, mutex, sem_error, pop_ub>>

\* popReadBuffer, after the wait: lock, buffers.back(), buffers.pop_back().
\* On an empty vector both are undefined: any value may come back.
PopResults ==
    IF buffers # <<>> THEN {buffers[Len(buffers)]}
    ELSE (1..num_consumers) \cup {Garbage}

\* The Reader is read with back() and left in the vector.
PopBackMissing(b) == b

\* The first Reader is erased instead of the last one, which back() returned.
PopBackFront(b) == SubSeq(b, 2, Len(b))

\* buffers.pop_back().
PopBack(b) == SubSeq(b, 1, Len(b) - 1)

PopTake(buffer) ==
    /\ mutex = NoThread
    /\ buffer \in PopResults
    /\ IF buffers # <<>>
          THEN buffers' = PopBack(buffers) /\ UNCHANGED pop_ub
          ELSE pop_ub' = TRUE /\ UNCHANGED buffers
    /\ UNCHANGED <<semaphore, mutex, sem_error>>

\* ------------------------------------------------- streams and the pool
Min(a, b) == IF a < b THEN a ELSE b

Max(a, b) == IF a > b THEN a ELSE b

SetStream(u, i, s) == streams' = [streams EXCEPT ![u][i] = s]

\* Position of a user while its streams run readPrefix.
Reading(u) == IF u = "task" THEN pc[u] = "stv_copy" ELSE pc[u] = "sel_read"

\* readPrefix: popReadBuffer(timeout), the semaphore gave a permit.
StreamPopWait(u, i) ==
    /\ Reading(u)
    /\ i \in DOMAIN streams[u]
    /\ streams[u][i].st = "new"
    /\ PopWait
    /\ SetStream(u, i, [streams[u][i] EXCEPT !.st = "granted"])
    /\ UNCHANGED <<cfgVars, depVars, taskVars, mainVars, roundVars, clockVars, dataVars,
                   ghostVars, stream_cancelled, pc, queries, catalog>>

\* readPrefix: tryWait(timeout) expired, popReadBuffer returns nullptr.
StreamPopTimeout(u, i) ==
    /\ Reading(u)
    /\ i \in DOMAIN streams[u]
    /\ streams[u][i].st = "new"
    /\ semaphore = 0
    /\ SetStream(u, i, [streams[u][i] EXCEPT !.st = "open", !.buf = NoReader])
    /\ UNCHANGED <<cfgVars, depVars, taskVars, mainVars, roundVars, clockVars, dataVars,
                   ghostVars, poolVars, stream_cancelled, pc, queries, catalog>>

\* readPrefix: popReadBuffer takes the Reader under the mutex.
StreamPopTake(u, i) ==
    /\ Reading(u)
    /\ i \in DOMAIN streams[u]
    /\ streams[u][i].st = "granted"
    /\ \E buffer \in PopResults :
          /\ PopTake(buffer)
          /\ SetStream(u, i, [streams[u][i] EXCEPT !.st = "open", !.buf = buffer])
    /\ UNCHANGED <<cfgVars, depVars, taskVars, mainVars, roundVars, clockVars, dataVars,
                   ghostVars, stream_cancelled, pc, queries, catalog>>

Releasing(u) == IF u = "task" THEN pc[u] = "stv_release" ELSE pc[u] = "sel_release"

\* A stream holds the Reader it popped until its destructor has pushed it.
Holds(s) == s.buf # NoReader /\ s.st # "gone"

\* The first stream of the vector that still holds a Reader.
NextToRelease(u) ==
    LET held == {i \in DOMAIN streams[u] : Holds(streams[u][i])}
    IN IF held = {} THEN 0 ELSE CHOOSE i \in held : \A k \in held : i <= k

\* ~KafkaBlockInputStream: pushReadBuffer(buffer), first half. A stream whose
\* records were consumed but not committed leaves its Reader at the committed
\* offset, so they are fetched again.
StreamReleaseAppend(u) ==
    /\ Releasing(u)
    /\ NextToRelease(u) # 0
    /\ LET i == NextToRelease(u)
           s == streams[u][i]
       IN /\ s.st # "pushing"
          /\ PushAppend(u, s.buf)
          /\ pos' = IF s.dirty THEN [pos EXCEPT ![s.buf] = committed[s.buf]] ELSE pos
          /\ SetStream(u, i, [s EXCEPT !.st = "pushing"])
    /\ UNCHANGED <<cfgVars, depVars, taskVars, mainVars, roundVars, clockVars, committed,
                   sunk, failures, ghostVars, stream_cancelled, pc, queries, catalog>>

\* ~KafkaBlockInputStream: pushReadBuffer(buffer), second half.
StreamReleaseSignal(u) ==
    /\ Releasing(u)
    /\ NextToRelease(u) # 0
    /\ LET i == NextToRelease(u)
           s == streams[u][i]
       IN /\ s.st = "pushing"
          /\ PushSignal(u)
          /\ SetStream(u, i, [s EXCEPT !.st = "gone"])
    /\ UNCHANGED <<cfgVars, depVars, taskVars, mainVars, roundVars, clockVars, dataVars,
                   ghostVars, stream_cancelled, pc, queries, catalog>>

\* ---------------------------------------------------- startup / shutdown
\* startup: createReadBuffer(i) succeeded, pushReadBuffer begins.
StartupCreate ==
    /\ pc["main"] = "startup"
    /\ mi < num_consumers
    /\ PushAppend("main", mi + 1)
    /\ Goto("main", "startup_push")
    /\ UNCHANGED <<cfgVars, depVars, taskVars, mainVars, roundVars, clockVars, dataVars,
                   ghostVars, stream_cancelled, streams, queries, catalog>>

\* The exception of createReadBuffer(i) leaves startup.
StartupCreateFailsFatal ==
    /\ pc["main"] = "startup"
    /\ mi < num_consumers
    /\ Goto("main", "failed")
    /\ UNCHANGED <<cfgVars, depVars, taskVars, mainVars, roundVars, clockVars, dataVars,
                   ghostVars, poolVars, stream_cancelled, streams, queries, catalog>>

\* startup: createReadBuffer(i) threw cppkafka::Exception, which is logged.
StartupCreateFails ==
    /\ pc["main"] = "startup"
    /\ mi < num_consumers
    /\ mi' = mi + 1
    /\ UNCHANGED <<cfgVars, depVars, taskVars, closed, num_created_consumers, roundVars,
                   clockVars, dataVars, ghostVars, poolVars, stream_cancelled,
                   pc, streams, queries, catalog>>

\* startup: pushReadBuffer ends, ++num_created_consumers. An exception of
\* semaphore.set() is no cppkafka::Exception and leaves startup.
StartupPushed ==
    /\ pc["main"] = "startup_push"
    /\ PushSignal("main")
    /\ IF sem_error'
          THEN Goto("main", "failed") /\ UNCHANGED <<mi, num_created_consumers>>
          ELSE /\ Goto("main", "startup")
               /\ num_created_consumers' = num_created_consumers + 1
               /\ mi' = mi + 1
    /\ UNCHANGED <<cfgVars, depVars, taskVars, closed, roundVars, clockVars, dataVars,
                   ghostVars, stream_cancelled, streams, queries, catalog>>

\* startup: task->activateAndSchedule().
StartupActivate ==
    /\ pc["main"] = "startup"
    /\ mi >= num_consumers
    /\ task_active' = TRUE
    /\ task_scheduled' = TRUE
    /\ scheduled_delay' = 0
    /\ Goto("main", "running")
    /\ UNCHANGED <<cfgVars, depVars, mainVars, roundVars, clockVars, dataVars, ghostVars,
                   poolVars, stream_cancelled, streams, queries, catalog>>

\* shutdown: stream_cancelled = true.
ShutdownCancel ==
    /\ pc["main"] = "running"
    /\ stream_cancelled' = TRUE
    /\ Goto("main", "sd_deactivate")
    /\ UNCHANGED <<cfgVars, depVars, taskVars, mainVars, roundVars, clockVars, dataVars,
                   ghostVars, poolVars, streams, queries, catalog>>

\* shutdown: "Waiting for cleanup", task->deactivate(). It waits for a running
\* invocation to return; afterwards no invocation starts.
ShutdownDeactivate ==
    /\ pc["main"] = "sd_deactivate"
    /\ pc["task"] = "idle"
    /\ task_active' = FALSE
    /\ task_scheduled' = FALSE
    /\ scheduled_delay' = 0
    /\ mi' = 0
    /\ Goto("main", "sd_loop")
    /\ UNCHANGED <<cfgVars, depVars, closed, num_created_consumers, roundVars, clockVars,
                   dataVars, ghostVars, poolVars, stream_cancelled, streams,
                   queries, catalog>>

\* A drain loop over the configured instead of the created consumers.
ShutdownLoopBoundConfigured == num_consumers

\* shutdown: the number of Readers the drain loop pops.
ShutdownLoopBound == num_created_consumers

\* shutdown: popReadBuffer() (timeout zero), semaphore.wait() returned.
ShutdownPopWait ==
    /\ pc["main"] = "sd_loop"
    /\ mi < ShutdownLoopBound
    /\ PopWait
    /\ Goto("main", "sd_take")
    /\ UNCHANGED <<cfgVars, depVars, taskVars, mainVars, roundVars, clockVars, dataVars,
                   ghostVars, stream_cancelled, streams, queries, catalog>>

\* shutdown: popReadBuffer() takes the Reader, which is closed.
ShutdownPopTake ==
    /\ pc["main"] = "sd_take"
    /\ \E buffer \in PopResults : PopTake(buffer)
    /\ closed' = closed + 1
    /\ mi' = mi + 1
    /\ Goto("main", "sd_loop")
    /\ UNCHANGED <<cfgVars, depVars, taskVars, num_created_consumers, roundVars, clockVars,
                   dataVars, ghostVars, stream_cancelled, streams, queries, catalog>>

\* shutdown: the loop is over, rd_kafka_wait_destroyed(CLEANUP_TIMEOUT_MS).
ShutdownDone ==
    /\ pc["main"] = "sd_loop"
    /\ mi >= ShutdownLoopBound
    /\ Goto("main", "done")
    /\ UNCHANGED <<cfgVars, depVars, taskVars, mainVars, roundVars, clockVars, dataVars,
                   ghostVars, poolVars, stream_cancelled, streams, queries, catalog>>

\* ------------------------------------------------------------ read path
\* read(): one stream per created consumer; none when there is no consumer.
SelectRead ==
    /\ pc["select"] = "idle"
    /\ queries < MaxQueries
    /\ queries' = queries + 1
    /\ IF num_created_consumers = 0
          THEN UNCHANGED <<pc, streams>>
          ELSE /\ Goto("select", "sel_read")
               /\ streams' = [streams EXCEPT !["select"] =
                                 [i \in 1..num_created_consumers |-> NewStream]]
    /\ UNCHANGED <<cfgVars, depVars, taskVars, mainVars, roundVars, clockVars, dataVars,
                   ghostVars, poolVars, stream_cancelled, catalog>>

\* The query has read from all its streams; they are destroyed.
SelectFinish ==
    /\ pc["select"] = "sel_read"
    /\ \A i \in DOMAIN streams["select"] : streams["select"][i].st = "open"
    /\ Goto("select", "sel_release")
    /\ UNCHANGED <<cfgVars, depVars, taskVars, mainVars, roundVars, clockVars, dataVars,
                   ghostVars, poolVars, stream_cancelled, streams, queries, catalog>>

SelectReturn ==
    /\ pc["select"] = "sel_release"
    /\ NextToRelease("select") = 0
    /\ streams' = [streams EXCEPT !["select"] = <<>>]
    /\ Goto("select", "idle")
    /\ UNCHANGED <<cfgVars, depVars, taskVars, mainVars, roundVars, clockVars, dataVars,
                   ghostVars, poolVars, stream_cancelled, queries, catalog>>

\* ------------------------------------------------------- the streaming task
Bump(n) == IF stream_cancelled THEN Min(n + 1, 2) ELSE n

\* The schedule pool runs the task: threadFunc begins.
TaskRun ==
    /\ pc["task"] = "idle"
    /\ task_active
    /\ task_scheduled
    /\ task_scheduled' = FALSE
    /\ scheduled_delay' = 0
    /\ Goto("task", "tf_deps")
    /\ UNCHANGED <<cfgVars, depVars, task_active, mainVars, roundVars, clockVars, dataVars,
                   ghostVars, poolVars, stream_cancelled, streams, queries, catalog>>

\* threadFunc: dependencies_count; start_time = now() when there are some.
\* Views are attached and detached by other threads: each read of the catalog
\* may find any of its states.
ThreadFuncDeps(cat) ==
    /\ pc["task"] = "tf_deps"
    /\ catalog' = cat
    /\ IF Cardinality(cat.deps["kafka"]) > 0
          THEN Goto("task", "tf_while")
          ELSE Goto("task", "tf_final")
    /\ elapsed' = 0
    /\ UNCHANGED <<cfgVars, depVars, taskVars, mainVars, roundVars, round_ticks, dataVars,
                   ghostVars, poolVars, stream_cancelled, streams, queries>>

\* A loop that does not look at the number of Readers.
LoopIgnoresCreated(cancelled, created) == ~cancelled

\* A loop that does not look at stream_cancelled.
LoopIgnoresCancel(cancelled, created) == created > 0

\* threadFunc: the condition of the while loop.
LoopContinues(cancelled, created) == ~cancelled /\ created > 0

ThreadFuncWhile ==
    /\ pc["task"] = "tf_while"
    /\ IF LoopContinues(stream_cancelled, num_created_consumers)
          THEN Goto("task", "tf_check")
          ELSE Goto("task", "tf_final")
    /\ UNCHANGED <<cfgVars, depVars, taskVars, mainVars, roundVars, clockVars, dataVars,
                   ghostVars, poolVars, stream_cancelled, streams, queries, catalog>>

\* The result of checkDependencies is ignored.
NotReadyIgnored(ready) == FALSE

\* threadFunc: if (!checkDependencies(table_id)) break.
NotReadyBreaks(ready) == ~ready

ThreadFuncCheck(cat) ==
    /\ pc["task"] = "tf_check"
    /\ catalog' = cat
    /\ deps_ready' = checkDependencies(cat, "kafka")
    /\ IF NotReadyBreaks(deps_ready')
          THEN Goto("task", "tf_final")
          ELSE Goto("task", "stv_setup")
    /\ UNCHANGED <<cfgVars, depVars, taskVars, mainVars, j, some_stream_is_stalled, thrown,
                   clockVars, dataVars, ghostVars, poolVars, stream_cancelled,
                   streams, queries>>

\* An exception of the catalog, of getTable or of the insert interpreter,
\* raised before the round has any stream.
ThreadFuncThrows ==
    /\ pc["task"] \in {"tf_deps", "tf_check", "stv_setup"}
    /\ thrown' = TRUE
    /\ Goto("task", "tf_catch")
    /\ UNCHANGED <<cfgVars, depVars, taskVars, mainVars, j, some_stream_is_stalled,
                   deps_ready, clockVars, dataVars, ghostVars, poolVars,
                   stream_cancelled, streams, queries, catalog>>

\* streamToViews: the insert pipeline and one stream per created consumer.
StreamToViewsSetup ==
    /\ pc["task"] = "stv_setup"
    /\ streams' = [streams EXCEPT !["task"] =
                      [i \in 1..num_created_consumers |-> NewStream]]
    /\ round_ticks' = 0
    /\ j' = 1
    /\ some_stream_is_stalled' = FALSE
    /\ rounds_after_cancel' = Bump(rounds_after_cancel)
    /\ Goto("task", "stv_copy")
    /\ UNCHANGED <<cfgVars, depVars, taskVars, mainVars, thrown, deps_ready, elapsed,
                   dataVars, resched_after_cancel, poolVars, stream_cancelled,
                   queries, catalog>>

\* Time passes while copyData runs. The clock is read only after the round,
\* so the ticks of a round are taken together, at the end of the copy.
CopyTick ==
    /\ pc["task"] = "stv_copy"
    /\ \A i \in DOMAIN streams["task"] : streams["task"][i].st = "done"
    /\ round_ticks < MaxRoundTicks
    /\ round_ticks' = round_ticks + 1
    /\ elapsed' = elapsed + Tick
    /\ UNCHANGED <<cfgVars, depVars, taskVars, mainVars, roundVars, dataVars, ghostVars,
                   poolVars, stream_cancelled, pc, streams, queries, catalog>>

\* readImpl: the stream forms its one block of k records, at most the block
\* size; fewer when the flush interval expires first, which leaves the Reader
\* stalled. With kafka_commit_every_batch each fetched batch is committed at
\* once. A stream without a Reader yields nothing.
StreamRead(i, k) ==
    /\ pc["task"] = "stv_copy"
    /\ i \in DOMAIN streams["task"]
    /\ LET s == streams["task"][i]
           r == s.buf
       IN /\ s.st = "open"
          /\ IF r = NoReader
                THEN /\ k = 0
                     /\ SetStream("task", i, [s EXCEPT !.st = "done", !.stalled = TRUE])
                     /\ UNCHANGED <<pos, committed>>
                ELSE /\ k <= Min(MaxBlockSize, avail - pos[r])
                     /\ SetStream("task", i,
                           [s EXCEPT !.st = IF k = 0 THEN "done" ELSE "read",
                                     !.block = [n \in 1..k |-> pos[r] + n],
                                     !.stalled = (k < MaxBlockSize),
                                     !.dirty = (k > 0)])
                     /\ pos' = [pos EXCEPT ![r] = pos[r] + k]
                     /\ committed' = IF intermediate_commit
                                        THEN [committed EXCEPT ![r] = pos[r] + k]
                                        ELSE committed
    /\ UNCHANGED <<cfgVars, depVars, taskVars, mainVars, roundVars, clockVars, sunk,
                   failures, ghostVars, poolVars, stream_cancelled, pc, queries,
                   catalog>>

\* copyData: the block of stream i is written to the sink.
Deliver(i) ==
    /\ pc["task"] = "stv_copy"
    /\ i \in DOMAIN streams["task"]
    /\ LET s == streams["task"][i]
       IN /\ s.st = "read"
          /\ sunk' = [sunk EXCEPT ![s.buf] = Max(sunk[s.buf], s.block[Len(s.block)])]
          /\ SetStream("task", i, [s EXCEPT !.st = "done"])
    /\ UNCHANGED <<cfgVars, depVars, taskVars, mainVars, roundVars, clockVars, pos,
                   committed, failures, ghostVars, poolVars, stream_cancelled, pc,
                   queries, catalog>>

\* The commit loop runs although copyData threw.
AfterCopyThrowsCommits == "stv_commit"

\* streamToViews: an exception of copyData skips the commit loop.
AfterCopyThrows == "stv_release"

\* copyData throws (the sink or a Reader failed): streamToViews is left
\* through the destructors of its streams.
CopyThrows ==
    /\ pc["task"] = "stv_copy"
    /\ failures < MaxFailures
    /\ \A i \in DOMAIN streams["task"] : streams["task"][i].st # "granted"
    /\ failures' = failures + 1
    /\ thrown' = TRUE
    /\ Goto("task", AfterCopyThrows)
    /\ UNCHANGED <<cfgVars, depVars, taskVars, mainVars, j, some_stream_is_stalled,
                   deps_ready, clockVars, pos, committed, sunk, ghostVars,
                   poolVars, stream_cancelled, streams, queries, catalog>>

\* The commit loop is entered while copyData is still copying.
CopyDataNotAwaited(sts) == TRUE

\* streamToViews: copyData(*in, *block_io.out, &stub) has returned.
CopyDataReturned(sts) == \A i \in DOMAIN sts : sts[i].st = "done"

StreamToViewsCopied ==
    /\ pc["task"] = "stv_copy"
    /\ CopyDataReturned(streams["task"])
    /\ Goto("task", "stv_commit")
    /\ UNCHANGED <<cfgVars, depVars, taskVars, mainVars, roundVars, clockVars, dataVars,
                   ghostVars, poolVars, stream_cancelled, streams, queries, catalog>>

\* Every stream reports stalled.
isStalledAlways(s) == TRUE

\* KafkaBlockInputStream::isStalled.
isStalled(s) == s.buf = NoReader \/ s.stalled

\* commit() falls under the short circuit of the stalled flag.
CommitSkippedOnceStalled(some_stalled) == ~some_stalled

\* streamToViews: whether the loop calls commit() on a stream, given the
\* stalled flag accumulated so far.
CommitCalled(some_stalled) == TRUE

\* The flag is overwritten by each stream.
StalledLast(some_stalled, stalled) == stalled

\* streamToViews: some_stream_is_stalled = some_stream_is_stalled || isStalled().
StalledSoFar(some_stalled, stalled) == some_stalled \/ stalled

\* A failed commit throws out of the loop.
StreamToViewsCommitThrows(ok) ==
    /\ pc["task"] = "stv_commit"
    /\ j \in DOMAIN streams["task"]
    /\ LET s == streams["task"][j]
       IN /\ some_stream_is_stalled' = StalledSoFar(some_stream_is_stalled, isStalled(s))
          /\ IF ok
                THEN /\ committed' = IF s.buf # NoReader
                                        THEN [committed EXCEPT ![s.buf] = pos[s.buf]]
                                        ELSE committed
                     /\ SetStream("task", j, [s EXCEPT !.dirty = FALSE,
                                                       !.commit_called = TRUE])
                     /\ j' = j + 1
                     /\ UNCHANGED <<failures, thrown, pc>>
                ELSE /\ s.buf # NoReader
                     /\ failures < MaxFailures
                     /\ failures' = failures + 1
                     /\ SetStream("task", j, [s EXCEPT !.commit_called = TRUE])
                     /\ thrown' = TRUE
                     /\ Goto("task", "stv_release")
                     /\ UNCHANGED <<committed, j>>
    /\ UNCHANGED <<cfgVars, depVars, taskVars, mainVars, deps_ready, clockVars, pos,
                   sunk, ghostVars, poolVars, stream_cancelled, queries, catalog>>

\* streamToViews: one turn of the loop over the streams; ok tells whether the
\* commit reached the broker (a failed commit is logged by the Reader).
StreamToViewsCommit(ok) ==
    /\ pc["task"] = "stv_commit"
    /\ j \in DOMAIN streams["task"]
    /\ LET s == streams["task"][j]
           called == CommitCalled(some_stream_is_stalled)
       IN /\ some_stream_is_stalled' = StalledSoFar(some_stream_is_stalled, isStalled(s))
          /\ IF called /\ s.buf # NoReader
                THEN IF ok
                        THEN /\ committed' = [committed EXCEPT ![s.buf] = pos[s.buf]]
                             /\ SetStream("task", j, [s EXCEPT !.dirty = FALSE,
                                                               !.commit_called = TRUE])
                             /\ UNCHANGED failures
                        ELSE /\ failures < MaxFailures
                             /\ failures' = failures + 1
                             /\ SetStream("task", j, [s EXCEPT !.commit_called = TRUE])
                             /\ UNCHANGED committed
                ELSE /\ ok
                     /\ SetStream("task", j, [s EXCEPT !.commit_called = called])
                     /\ UNCHANGED <<committed, failures>>
    /\ j' = j + 1
    /\ UNCHANGED <<cfgVars, depVars, taskVars, mainVars, thrown, deps_ready, clockVars, pos,
                   sunk, ghostVars, poolVars, stream_cancelled, pc, queries, catalog>>

\* streamToViews: return some_stream_is_stalled; the streams are destroyed.
StreamToViewsCommitted ==
    /\ pc["task"] = "stv_commit"
    /\ j \notin DOMAIN streams["task"]
    /\ Goto("task", "stv_release")
    /\ UNCHANGED <<cfgVars, depVars, taskVars, mainVars, roundVars, clockVars, dataVars,
                   ghostVars, poolVars, stream_cancelled, streams, queries, catalog>>

\* streamToViews is left while its streams keep the Readers they popped.
StreamToViewsReturnHolding ==
    /\ pc["task"] = "stv_release"
    /\ streams' = [streams EXCEPT !["task"] = <<>>]
    /\ IF thrown THEN Goto("task", "tf_catch") ELSE Goto("task", "tf_after")
    /\ UNCHANGED <<cfgVars, depVars, taskVars, mainVars, roundVars, clockVars, dataVars,
                   ghostVars, poolVars, stream_cancelled, queries, catalog>>

\* streamToViews is left, by return or by exception.
StreamToViewsReturn ==
    /\ pc["task"] = "stv_release"
    /\ NextToRelease("task") = 0
    /\ streams' = [streams EXCEPT !["task"] = <<>>]
    /\ IF thrown THEN Goto("task", "tf_catch") ELSE Goto("task", "tf_after")
    /\ UNCHANGED <<cfgVars, depVars, taskVars, mainVars, roundVars, clockVars, dataVars,
                   ghostVars, poolVars, stream_cancelled, queries, catalog>>

\* The work duration is never found exceeded.
DurationNeverExceeded(duration) == FALSE

\* threadFunc: duration.count() > MAX_THREAD_WORK_DURATION_MS.
DurationExceeded(duration) == duration > MAX_THREAD_WORK_DURATION_MS

\* threadFunc: after the round, break when a stream stalled or the work
\* duration is exceeded; otherwise the loop goes on.
ThreadFuncAfterRound ==
    /\ pc["task"] = "tf_after"
    /\ IF some_stream_is_stalled \/ DurationExceeded(elapsed)
          THEN Goto("task", "tf_final")
          ELSE Goto("task", "tf_while")
    /\ UNCHANGED <<cfgVars, depVars, taskVars, mainVars, roundVars, clockVars, dataVars,
                   ghostVars, poolVars, stream_cancelled, streams, queries, catalog>>

\* The handler returns from threadFunc.
AfterCatchReturns == "idle"

\* threadFunc: where control continues after catch (...) logged the exception.
AfterCatch == "tf_final"

ThreadFuncCatch ==
    /\ pc["task"] = "tf_catch"
    /\ Goto("task", AfterCatch)
    /\ UNCHANGED <<cfgVars, depVars, taskVars, mainVars, roundVars, clockVars, dataVars,
                   ghostVars, poolVars, stream_cancelled, streams, queries, catalog>>

\* threadFunc: if (!stream_cancelled), the test before the reschedule. The
\* locals of the try block are out of scope here.
RescheduleAllowed(cancelled) == ~cancelled

ThreadFuncFinal ==
    /\ pc["task"] = "tf_final"
    /\ IF RescheduleAllowed(stream_cancelled)
          THEN Goto("task", "tf_resched")
          ELSE Goto("task", "idle")
    /\ j' = 0
    /\ some_stream_is_stalled' = FALSE
    /\ deps_ready' = FALSE
    /\ elapsed' = 0
    /\ round_ticks' = 0
    /\ catalog' = CatNone
    /\ thrown' = (thrown /\ RescheduleAllowed(stream_cancelled))
    /\ UNCHANGED <<cfgVars, depVars, taskVars, mainVars, dataVars, ghostVars, poolVars,
                   stream_cancelled, streams, queries>>

\* A delay that doubles after an exception.
RescheduleDelayBackoff(failed) ==
    IF failed THEN 2 * RESCHEDULE_MS ELSE RESCHEDULE_MS

\* threadFunc: the argument of scheduleAfter.
RescheduleDelay(failed) == RESCHEDULE_MS

\* threadFunc: task->scheduleAfter(RESCHEDULE_MS); a deactivated or already
\* scheduled task is left as it is.
ThreadFuncReschedule ==
    /\ pc["task"] = "tf_resched"
    /\ task_scheduled' = (task_scheduled \/ task_active)
    /\ scheduled_delay' = IF task_scheduled \/ ~task_active
                             THEN scheduled_delay
                             ELSE RescheduleDelay(thrown)
    /\ resched_after_cancel' = Bump(resched_after_cancel)
    /\ thrown' = FALSE
    /\ Goto("task", "idle")
    /\ UNCHANGED <<cfgVars, depVars, task_active, mainVars, j, some_stream_is_stalled,
                   deps_ready, clockVars, dataVars, rounds_after_cancel, poolVars,
                   stream_cancelled, streams, queries, catalog>>

\* ---------------------------------------------------------- specification
Lifecycle ==
    \/ StartupCreate
    \/ StartupCreateFails
    \/ StartupPushed
    \/ StartupActivate
    \/ ShutdownCancel
    \/ ShutdownDeactivate
    \/ ShutdownPopWait
    \/ ShutdownPopTake
    \/ ShutdownDone

ReadPath ==
    \/ SelectRead
    \/ SelectFinish
    \/ SelectReturn

StreamPool ==
    \/ \E u \in Users, i \in 1..MaxConsumers : StreamPopWait(u, i)
    \/ \E u \in Users, i \in 1..MaxConsumers : StreamPopTake(u, i)
    \/ \E u \in Users : StreamReleaseAppend(u)
    \/ \E u \in Users : StreamReleaseSignal(u)

Task ==
    \/ TaskRun
    \/ \E cat \in Catalogs : ThreadFuncDeps(cat)
    \/ ThreadFuncWhile
    \/ \E cat \in Catalogs : ThreadFuncCheck(cat)
    \/ StreamToViewsSetup
    \/ \E i \in 1..MaxConsumers, k \in 0..MaxBlockSize : StreamRead(i, k)
    \/ StreamToViewsCopied
    \/ StreamToViewsCommit(TRUE)
    \/ StreamToViewsCommitted
    \/ StreamToViewsReturn
    \/ ThreadFuncAfterRound
    \/ ThreadFuncFinal
    \/ ThreadFuncReschedule

\* Exceptions in threadFunc and failed commits.
Failures ==
    \/ ThreadFuncThrows
    \/ CopyThrows
    \/ StreamToViewsCommit(FALSE)
    \/ ThreadFuncCatch

\* The table with its views and its topic, no SELECT reading from it.
NextRound ==
    \/ Lifecycle
    \/ StreamPool
    \/ Task
    \/ Failures
    \/ CopyTick
    \/ \E i \in 1..MaxConsumers : Deliver(i)

\* The table with SELECT queries competing for the Readers, its topic empty
\* and nothing failing.
NextPool ==
    \/ Lifecycle
    \/ ReadPath
    \/ StreamPool
    \/ \E u \in Users, i \in 1..MaxConsumers : StreamPopTimeout(u, i)
    \/ Task

\* The steps of the read path of a running query.
SelectSteps ==
    \/ SelectFinish
    \/ SelectReturn
    \/ \E i \in 1..MaxConsumers : StreamPopWait("select", i)
    \/ \E i \in 1..MaxConsumers : StreamPopTimeout("select", i)
    \/ \E i \in 1..MaxConsumers : StreamPopTake("select", i)
    \/ StreamReleaseAppend("select")
    \/ StreamReleaseSignal("select")

\* The steps of the task, once the schedule pool holds it.
TaskSteps ==
    \/ Task
    \/ Failures
    \/ \E i \in 1..MaxConsumers : StreamPopWait("task", i)
    \/ \E i \in 1..MaxConsumers : StreamPopTimeout("task", i)
    \/ \E i \in 1..MaxConsumers : StreamPopTake("task", i)
    \/ StreamReleaseAppend("task")
    \/ StreamReleaseSignal("task")

\* The steps of startup and of shutdown, once it was called.
MainSteps ==
    \/ StartupCreate
    \/ StartupCreateFails
    \/ StartupPushed
    \/ StartupActivate
    \/ ShutdownDeactivate
    \/ ShutdownPopWait
    \/ ShutdownPopTake
    \/ ShutdownDone

SpecRound == InitRound /\ [][NextRound]_vars

SpecPool == InitPool /\ [][NextPool]_vars

FairSpecRound ==
    /\ SpecRound
    /\ WF_vars(MainSteps /\ NextRound)
    /\ WF_vars(TaskSteps /\ NextRound)

\* Every thread that can take a step eventually takes one. Whether a query or
\* shutdown is started at all is left open.
FairSpecPool ==
    /\ SpecPool
    /\ WF_vars(MainSteps /\ NextPool)
    /\ WF_vars(TaskSteps /\ NextPool)
    /\ WF_vars(SelectSteps /\ NextPool)

\* ------------------------------------------------- dependency check, by step

\* Every catalog over Tables: views that select from the Kafka table or from
\* each other, in a cycle too, no view from itself; the Kafka table is
\* attached, only views are materialized views and only a materialized view
\* has a target table.
DepGraphs ==
    [deps : {d \in [Tables -> SUBSET {"v1", "v2"}] : \A t \in Tables : t \notin d[t]},
     attached : {{"kafka"} \cup a : a \in SUBSET {"v1", "v2"}},
     mv : SUBSET {"v1", "v2"},
     target : SUBSET {"v1", "v2"}]

\* One checkDependencies call on one catalog; the table is not started.
InitDeps ==
    /\ InitStorage
    /\ num_consumers = 1
    /\ intermediate_commit = FALSE
    /\ avail = 0
    /\ catalog = CatNone
    /\ dep_catalog \in {g \in DepGraphs : g.target \subseteq g.mv}

\* The frame of checkDependencies(table_id): the dependents its loop has not
\* visited yet.
DepFrame(cat, table_id) == [table |-> table_id, todo |-> cat.deps[table_id]]

DepTop == dep_stack[Len(dep_stack)]

DepOnStack(table_id) == \E k \in 1..Len(dep_stack) : dep_stack[k].table = table_id

depRest ==
    <<cfgVars, poolVars, taskVars, mainVars, roundVars, clockVars, dataVars,
      ghostVars, stream_cancelled, pc, streams, queries, catalog>>

\* threadFunc calls checkDependencies(table_id) of the storage.
DepCall ==
    /\ dep_result = "none"
    /\ dep_stack' = <<DepFrame(dep_catalog, "kafka")>>
    /\ dep_result' = "running"
    /\ UNCHANGED <<dep_catalog, depRest>>

\* The loop meets a dependent that is detached, or a materialized view
\* without target table: this call and every caller return false.
DepNotReady(db_tab) ==
    /\ dep_result = "running"
    /\ db_tab \in DepTop.todo
    /\ \/ db_tab \notin dep_catalog.attached
       \/ db_tab \in dep_catalog.mv /\ db_tab \notin dep_catalog.target
    /\ dep_stack' = <<>>
    /\ dep_result' = "false"
    /\ UNCHANGED <<dep_catalog, depRest>>

DepUsable(db_tab) ==
    /\ db_tab \in dep_catalog.attached
    /\ ~(db_tab \in dep_catalog.mv /\ db_tab \notin dep_catalog.target)

\* The loop meets a usable dependent and calls itself on it.
DepRecurse(db_tab) ==
    /\ dep_result = "running"
    /\ db_tab \in DepTop.todo
    /\ DepUsable(db_tab)
    /\ ~DepOnStack(db_tab)
    /\ dep_stack' =
          Append([dep_stack EXCEPT ![Len(dep_stack)].todo = @ \ {db_tab}],
                 DepFrame(dep_catalog, db_tab))
    /\ UNCHANGED <<dep_catalog, dep_result, depRest>>

\* The loop calls itself on a table whose call is still on the stack. No
\* visited set stops it: that call took this path, so the new one takes it
\* again, and the recursion ends only when the stack is exhausted.
DepRevisit(db_tab) ==
    /\ dep_result = "running"
    /\ db_tab \in DepTop.todo
    /\ DepUsable(db_tab)
    /\ DepOnStack(db_tab)
    /\ dep_result' = "overflow"
    /\ UNCHANGED <<dep_catalog, dep_stack, depRest>>

\* No dependents, or the loop is through: the call returns true.
DepReturnTrue ==
    /\ dep_result = "running"
    /\ DepTop.todo = {}
    /\ dep_stack' = SubSeq(dep_stack, 1, Len(dep_stack) - 1)
    /\ dep_result' = IF Len(dep_stack) = 1 THEN "true" ELSE "running"
    /\ UNCHANGED <<dep_catalog, depRest>>

NextDeps ==
    \/ DepCall
    \/ \E db_tab \in Tables : DepNotReady(db_tab)
    \/ \E db_tab \in Tables : DepRecurse(db_tab)
    \/ \E db_tab \in Tables : DepRevisit(db_tab)
    \/ DepReturnTrue

SpecDeps == InitDeps /\ [][NextDeps]_vars

\* ------------------------------------------------------------------ claims
HeldBy(u) == Cardinality({i \in DOMAIN streams[u] : Holds(streams[u][i])})

\* Readers popped from the pool and not pushed back: those the streams hold
\* and those shutdown has closed.
CheckedOut == HeldBy("task") + HeldBy("select") + closed

\* C1: the number of Readers that are checked out (popped and not yet pushed
\* back) never exceeds the configured pool size num_consumers.
C1_CheckedOutWithinPoolSize == CheckedOut <= num_consumers

\* Every Reader of the full pool is checked out, by the round and by a query
\* at the same time.
C1_Witness ==
    /\ num_consumers = MaxConsumers
    /\ HeldBy("task") >= 1
    /\ HeldBy("select") >= 1
    /\ CheckedOut = num_consumers

\* Pops that passed the semaphore and have not yet taken their Reader.
Granted ==
    Cardinality({<<u, i>> \in Users \X (1..MaxConsumers) :
                    i \in DOMAIN streams[u] /\ streams[u][i].st = "granted"})
    + (IF pc["main"] = "sd_take" THEN 1 ELSE 0)

\* Readers in the vector whose push has signalled the semaphore.
Signalled == Len(buffers) - (IF mutex = NoThread THEN 0 ELSE 1)

\* Every place a Reader can be: the vector and the streams holding one
\* (a stream whose destructor is between append and signal holds none).
HeldReaders ==
    {<<u, i>> \in Users \X (1..MaxConsumers) :
        /\ i \in DOMAIN streams[u]
        /\ Holds(streams[u][i])
        /\ streams[u][i].st # "pushing"}

ReaderOf(h) == streams[h[1]][h[2]].buf

\* C2: a pop passes the semaphore only for a Reader a push has signalled, each
\* signalled push lets exactly one pop pass (the permits in the semaphore and
\* in the hands of passing pops equal the signalled Readers, so a Reader left
\* in the pool always leaves a permit for a waiting pop), and no Reader is
\* handed to two pops without a push of it in between: the vector and the
\* streams never hold the same Reader twice.
C2_OnePopPerPush ==
    /\ semaphore + Granted = Signalled
    /\ \A a, b \in 1..Len(buffers) : buffers[a] = buffers[b] => a = b
    /\ \A g, h \in HeldReaders : ReaderOf(g) = ReaderOf(h) => g = h
    /\ \A h \in HeldReaders, a \in 1..Len(buffers) : ReaderOf(h) # buffers[a]

\* Shutdown's pop is blocked on the empty pool while a stream of a query is
\* pushing the Reader that will release it.
C2_Witness ==
    /\ pc["main"] = "sd_loop"
    /\ mi < num_created_consumers
    /\ semaphore = 0
    /\ mutex = "select"

InRound == pc["task"] \in {"stv_copy", "stv_commit", "stv_release"}

TaskStreams == streams["task"]

\* The streams of the round that popped a Reader.
Participating == {i \in DOMAIN TaskStreams : TaskStreams[i].buf # NoReader}

RoundFailed == thrown /\ pc["task"] \in {"stv_release", "tf_catch"}

\* No offset of the records stream i fetched in this round is committed.
NothingCommitted(i) ==
    LET s == TaskStreams[i]
    IN s.block # <<>> => committed[s.buf] < s.block[1]

C5_NotReadyAbortsRound ==
    /\ [](InRound \/ pc["task"] = "stv_setup" => deps_ready)
    /\ [][(pos' # pos \/ sunk' # sunk \/ committed' # committed) => InRound]_vars

\* The check reported a dependent not ready, after an earlier iteration of the
\* invocation had delivered records, and threadFunc left the loop.
C5_Witness ==
    /\ pc["task"] = "tf_final"
    /\ ~thrown
    /\ ~deps_ready
    /\ ~checkDependencies(catalog, "kafka")
    /\ elapsed > 0

LoopPcs == {"tf_while", "tf_check", "stv_setup", "stv_copy", "stv_commit",
            "stv_release", "tf_after"}

\* C6 as stated: whenever the invocation is in its loop, no more than the
\* maximum work duration has passed since the loop was entered.
C6_Original == pc["task"] \in LoopPcs => elapsed <= MAX_THREAD_WORK_DURATION_MS

\* C6: the duration is tested only after a round, so a round begins only
\* when at most the maximum work duration had passed at the end of the round
\* before it; the loop is left at the end of the first round that ends later.
C6_NoRoundStartsPastDeadline ==
    /\ pc["task"] \in {"tf_while", "tf_check", "stv_setup"} =>
          elapsed <= MAX_THREAD_WORK_DURATION_MS
    /\ InRound => elapsed - round_ticks * Tick <= MAX_THREAD_WORK_DURATION_MS

\* The loop was left because the duration was exceeded, no stream stalled.
C6_Witness ==
    /\ pc["task"] = "tf_final"
    /\ ~thrown
    /\ deps_ready
    /\ ~some_stream_is_stalled
    /\ elapsed > MAX_THREAD_WORK_DURATION_MS

\* C7 as stated: once stream_cancelled is set, no round is started and no
\* reschedule is issued.
C7_Original == rounds_after_cancel = 0 /\ resched_after_cancel = 0

\* C7: once stream_cancelled is set, at most one more round is started (by
\* the iteration that had passed the loop condition) and at most one more
\* reschedule is issued (by the invocation that had passed the final test);
\* when deactivate has returned the task neither runs nor is scheduled.
C7_CancelStopsScheduler ==
    /\ rounds_after_cancel <= 1
    /\ resched_after_cancel <= 1
    /\ pc["main"] \in {"sd_loop", "sd_take", "done"} =>
          pc["task"] = "idle" /\ ~task_scheduled

\* A round began after shutdown had set the flag.
C7_Witness == rounds_after_cancel = 1 /\ InRound

\* C8: an exception raised in threadFunc is caught there: from the handler
\* control goes to the test before the reschedule, and unless the flag is
\* set by then the task is scheduled again and a new invocation begins.
C8_ExceptionsCaughtAndRescheduled ==
    /\ [][pc["task"] = "tf_catch" /\ pc'["task"] # "tf_catch"
            => pc'["task"] = "tf_final"]_vars
    /\ (pc["task"] = "tf_catch") ~> (stream_cancelled \/ pc["task"] = "tf_deps")

\* The invocation in which copyData threw issues its reschedule.
C8_Witness ==
    /\ pc["task"] = "tf_resched"
    /\ thrown
    /\ failures > 0

\* C9: when the commit loop of a round is over, commit() was called on every
\* stream, stalled or not, and the readers are given back only after that.
C9_EveryReaderCommitted ==
    (pc["task"] = "stv_release" /\ ~thrown) =>
        \A i \in DOMAIN TaskStreams : TaskStreams[i].commit_called

\* The first stream stalled; the second, not stalled, was committed with the
\* records it delivered.
C9_Witness ==
    /\ pc["task"] = "stv_release"
    /\ ~thrown
    /\ Len(TaskStreams) = 2
    /\ isStalled(TaskStreams[1])
    /\ ~isStalled(TaskStreams[2])
    /\ TaskStreams[2].commit_called
    /\ TaskStreams[2].block # <<>>
    /\ committed[TaskStreams[2].buf] = TaskStreams[2].block[Len(TaskStreams[2].block)]

\* ------------------------------------------------ more claims on the pool
\* The step in which the pop of stream i of user u ends by its timeout.
TimedOut(u, i) ==
    /\ i \in DOMAIN streams[u]
    /\ streams[u][i].st = "new"
    /\ i \in DOMAIN streams'[u]
    /\ streams'[u][i].st = "open"

\* C11: a pop with a timeout that expires happens only while the semaphore
\* has no permit, returns no Reader and leaves buffers and the semaphore as
\* they were; the pop of shutdown, with timeout zero, stays in its wait until
\* it takes a permit and then removes one Reader from buffers.
C11_PopTimeoutSemantics ==
    /\ [][\A u \in Users, i \in 1..MaxConsumers :
            TimedOut(u, i) =>
                /\ streams'[u][i].buf = NoReader
                /\ semaphore = 0
                /\ semaphore' = semaphore
                /\ buffers' = buffers]_vars
    /\ [][pc["main"] = "sd_loop" /\ mi < num_created_consumers
            /\ pc'["main"] # "sd_loop"
            => pc'["main"] = "sd_take" /\ semaphore > 0
               /\ semaphore' = semaphore - 1]_vars
    /\ [][pc["main"] = "sd_take" /\ pc'["main"] # "sd_take"
            => buffers # <<>> /\ Len(buffers') = Len(buffers) - 1
               /\ closed' = closed + 1]_vars

\* A stream of the query got no Reader within its timeout; the drain of
\* shutdown has passed its wait.
C11_Witness ==
    /\ pc["main"] = "sd_take"
    /\ \E i \in DOMAIN streams["select"] :
          /\ streams["select"][i].st = "open"
          /\ streams["select"][i].buf = NoReader

\* No thread is inside pushReadBuffer, none between the wait and the take of
\* popReadBuffer.
Quiescent == mutex = NoThread /\ Granted = 0

\* C12: whenever no push and no pop is in progress, the count of the
\* semaphore is the number of Readers in buffers.
C12_SemaphoreCountsBuffers == Quiescent => semaphore = Len(buffers)

\* After a timed-out pop, a successful pop and a push: one Reader is in the
\* pool, one is held by the round.
C12_Witness ==
    /\ Quiescent
    /\ semaphore = 1
    /\ HeldBy("task") = 1
    /\ \E i \in DOMAIN streams["select"] :
          /\ streams["select"][i].st = "open"
          /\ streams["select"][i].buf = NoReader

\* C13: semaphore.set() never throws: no push finds the count at the maximum
\* of the semaphore, and startup is never left by an exception of a push.
C13_PushNeverFails ==
    /\ ~sem_error
    /\ semaphore <= SemaphoreMax
    /\ mutex # NoThread => semaphore < SemaphoreMax

\* Every Reader of the largest pool is back after a round: the count is at
\* its maximum.
C13_Witness ==
    /\ num_consumers = MaxConsumers
    /\ semaphore = SemaphoreMax
    /\ pc["task"] = "tf_after"

\* C14: startup is never left by the failure of createReadBuffer; when it
\* activates the task every slot was attempted, the task is active and
\* scheduled, and num_created_consumers is the number of Readers pushed,
\* which is the size of the pool and at most num_consumers.
C14_StartupBestEffort ==
    /\ [](pc["main"] # "failed" /\ num_created_consumers <= num_consumers)
    /\ [][pc["main"] = "startup" /\ pc'["main"] = "running"
            => /\ mi = num_consumers
               /\ task_active' /\ task_scheduled'
               /\ num_created_consumers = Len(buffers)
               /\ semaphore = Len(buffers)]_vars

\* The first slot failed, the second was provisioned, the task is scheduled.
C14_Witness ==
    /\ pc["main"] = "running"
    /\ task_active /\ task_scheduled
    /\ num_consumers = 2
    /\ num_created_consumers = 1
    /\ buffers = <<2>>

\* ----------------------------------------------- more claims on the round
\* The commit of the stream was called and did not reach the broker.
CommitFailed(s) == s.commit_called /\ s.dirty

Fetched(s) == s.buf # NoReader /\ s.st \in {"read", "done"}

\* The records its Reader had not consumed when the stream began to read.
Pending(s) == avail - (pos[s.buf] - Len(s.block))

C18_StalledIsDisjunction ==
    /\ pc["task"] = "stv_commit" =>
          some_stream_is_stalled =
              (\E i \in Participating : i < j /\ TaskStreams[i].stalled)
    /\ (pc["task"] = "stv_release" /\ ~thrown) =>
          some_stream_is_stalled = (\E i \in Participating : TaskStreams[i].stalled)

\* Only the first of two Readers stalled and the round reports stalled.
C18_Witness ==
    /\ pc["task"] = "stv_release"
    /\ ~thrown
    /\ Len(TaskStreams) = 2
    /\ TaskStreams[1].stalled
    /\ ~TaskStreams[2].stalled
    /\ some_stream_is_stalled

\* ------------------------------------------- more claims on the scheduler
\* C19: after a round that reported stalled the loop is left; an invocation
\* ends only through the test before the reschedule, which leads to
\* scheduleAfter unless stream_cancelled is set; scheduleAfter is called once,
\* queues the task and is given RESCHEDULE_MS, and nothing else queues the
\* task with a delay.
C19_SingleFixedDelayReschedule ==
    /\ [][pc["task"] = "tf_after" /\ some_stream_is_stalled
            /\ pc'["task"] # "tf_after" => pc'["task"] = "tf_final"]_vars
    /\ [][pc["task"] = "tf_final" /\ pc'["task"] # "tf_final"
            => pc'["task"] = IF stream_cancelled THEN "idle" ELSE "tf_resched"]_vars
    /\ [][pc["task"] = "tf_resched" /\ pc'["task"] # "tf_resched"
            => /\ pc'["task"] = "idle"
               /\ task_scheduled'
               /\ scheduled_delay' = RESCHEDULE_MS]_vars
    /\ [][pc["task"] # "idle" /\ pc'["task"] = "idle"
            => pc["task"] \in {"tf_final", "tf_resched"}]_vars
    /\ [][scheduled_delay' # scheduled_delay /\ scheduled_delay' # 0
            => pc["task"] = "tf_resched"]_vars

\* After rounds that delivered records the task is queued with the delay.
C19_Witness ==
    /\ pc["task"] = "idle"
    /\ ~stream_cancelled
    /\ task_scheduled
    /\ scheduled_delay = RESCHEDULE_MS
    /\ \E r \in 1..MaxConsumers : sunk[r] > 0

\* The tables reachable from the given ones in at most n steps of the
\* dependency relation.
RECURSIVE ReachableFrom(_, _, _)
ReachableFrom(cat, seen, n) ==
    IF n = 0 THEN seen
    ELSE ReachableFrom(cat, seen \cup UNION {cat.deps[t] : t \in seen}, n - 1)

\* Every dependent of the table, direct or chained.
Dependents(cat) == ReachableFrom(cat, cat.deps["kafka"], Cardinality(Tables))

\* Every dependent is attached and, when it is a materialized view, has its
\* target table.
AllDependentsReady(cat) ==
    \A t \in Dependents(cat) :
        t \in cat.attached /\ (t \in cat.mv => t \in cat.target)

\* C20: a round is run only when the catalog, as the check before the round
\* read it, gives the table at least one direct dependent and has every
\* dependent at every depth attached and with its target.
C20_RoundOnlyWhenDependentsReady ==
    (InRound \/ pc["task"] = "stv_setup") =>
        /\ catalog.deps["kafka"] # {}
        /\ AllDependentsReady(catalog)

\* The step-wise call and the function agree wherever the call returns true.
DepAgreesWithFunction ==
    dep_result = "true" => checkDependencies(dep_catalog, "kafka")

\* C21: the dependency readiness check terminates on every finite dependency
\* graph, a graph with a cycle among the dependents included: it never calls
\* itself on a table it is already visiting, so the recursion never runs
\* until the stack is exhausted.
C21_CheckTerminatesOnEveryGraph ==
    /\ dep_result # "overflow"
    /\ \A k, l \in 1..Len(dep_stack) :
          dep_stack[k].table = dep_stack[l].table => k = l


\* A thread between the append and the signal of pushReadBuffer.
Pushing(t) ==
    IF t = "main" THEN pc["main"] = "startup_push"
    ELSE \E i \in DOMAIN streams[t] : streams[t][i].st = "pushing"

\* A thread at the semaphore wait of popReadBuffer; it is blocked while the
\* count is zero.
AtSemaphore(t) ==
    IF t = "main" THEN pc["main"] = "sd_loop" /\ mi < ShutdownLoopBound
    ELSE Reading(t) /\ \E i \in DOMAIN streams[t] : streams[t][i].st = "new"

\* A thread that has called pushReadBuffer and not yet locked the mutex.
AboutToPush(u) ==
    /\ Releasing(u)
    /\ NextToRelease(u) # 0
    /\ ~Pushing(u)

\* C22: the pool mutex is held only for the append of a push and the remove
\* of a pop, never by a thread waiting on the semaphore: whoever holds it
\* between two steps is in the middle of a push and can finish it, and a push
\* that finds the mutex free can append, however many pops are blocked on
\* the empty pool.
C22_MutexNeverHeldWhileWaiting ==
    /\ mutex # NoThread => Pushing(mutex)
    /\ \A t \in Threads : AtSemaphore(t) => mutex # t
    /\ mutex = "main" => ENABLED StartupPushed
    /\ \A u \in Users :
          /\ mutex = u => ENABLED StreamReleaseSignal(u)
          /\ AboutToPush(u) /\ mutex = NoThread => ENABLED StreamReleaseAppend(u)

\* A query is blocked on the empty pool while the task is in the middle of
\* pushing a Reader back.
C22_Witness ==
    /\ semaphore = 0
    /\ AtSemaphore("select")
    /\ mutex = "task"
    /\ Pushing("task")


\* The table runs: startup is through and the drain of shutdown has not begun.
Serving == pc["main"] \in {"running", "sd_deactivate"}

Draining == pc["main"] \in {"sd_loop", "sd_take"}

C24_PopNeverFindsPoolEmpty ==
    /\ ~pop_ub
    /\ semaphore + Granted <= Len(buffers)
    /\ Granted > 0 => buffers # <<>>

\* A query's pop has passed the wait and not yet taken its Reader while the
\* task's push of another Reader holds the mutex.
C24_Witness ==
    /\ Granted > 0
    /\ \E i \in DOMAIN streams["select"] : streams["select"][i].st = "granted"
    /\ mutex = "task"
    /\ Len(buffers) = MaxConsumers


\* Startup provisioned no Reader and the task is running.
NoReaderProvisioned ==
    /\ num_created_consumers = 0
    /\ pc["main"] \notin {"startup", "startup_push"}

\* C25: a DeliveryRound is never started with zero provisioned Readers, so
\* the round always has a first stream; when startup provisioned no Reader,
\* an invocation of the task leaves its loop without a round, delivers and
\* commits nothing and, unless stream_cancelled is set, queues itself again
\* with RESCHEDULE_MS.
C25_NoRoundWithoutReaders ==
    /\ [](pc["task"] \in {"tf_check", "stv_setup"} \/ InRound
             => num_created_consumers > 0)
    /\ [](InRound => Len(streams["task"]) > 0)
    /\ [](num_created_consumers = 0
             => \A r \in ReaderIds : sunk[r] = 0 /\ pos[r] = 0 /\ committed[r] = 0)
    /\ [][NoReaderProvisioned /\ pc["task"] = "tf_while"
            /\ pc'["task"] # "tf_while" => pc'["task"] = "tf_final"]_vars
    /\ (NoReaderProvisioned /\ pc["task"] = "tf_deps")
          ~> \/ stream_cancelled
             \/ /\ pc["task"] = "idle"
                /\ task_scheduled
                /\ scheduled_delay = RESCHEDULE_MS

\* Every createReadBuffer of startup failed; the views are attached and
\* ready, and the invocation has left its loop without a round.
C25_Witness ==
    /\ NoReaderProvisioned
    /\ pc["main"] = "running"
    /\ ~stream_cancelled
    /\ pc["task"] = "tf_final"
    /\ catalog = CatReady


====
